---- MODULE Spec2Model ----
(***************************************************************************)
(* Model of src/augeas.c: the path/value store kept as a circular,         *)
(* doubly-linked list of heap entries reachable from the static `head`.    *)
(*                                                                         *)
(* Strings that the code inspects character by character (paths, glob      *)
(* patterns) are sequences of one-character strings, so that pathlen,      *)
(* strncmp, strrchr, strchr and fnmatch are computed the way the code      *)
(* computes them.  Values are only copied and compared as wholes and are   *)
(* kept as TLA+ strings.  Heap cells are the Nodes 1..MaxNodes, 0 is the   *)
(* NULL pointer.                                                           *)
(***************************************************************************)
EXTENDS Integers, Sequences, FiniteSets, TLC

\* head, mem: the program's static head pointer and its heap.
\* call, ret, out: the last API call, what it returned and what it wrote to
\* its output argument.  was: whether the path that call was given had an
\* entry when the call began.
VARIABLES head, mem, call, ret, out, was

vars == <<head, mem, call, ret, out, was>>

(***************************************************************************)
(* Bounds                                                                  *)
(***************************************************************************)
MaxNodes == 6

\* the longest provider array the loops of aug_init and aug_save are run on;
\* the array of augeas.c holds one provider
MaxProviders == 2

\* the allocations of one call are numbered from 1; the one that fails is
\* drawn from 0..MaxFailAt, 0 for none.  A Set on /a/b/c asks for seven.
MaxFailAt == 7

(***************************************************************************)
(* C strings                                                               *)
(***************************************************************************)
SEP == "/"

NUL == "NUL"

NULL == 0

NOVALUE == "NULL"

P_SYSTEM == <<"/", "s", "y", "s", "t", "e", "m">>

P_SYSTEM_CONFIG == <<"/", "s", "y", "s", "t", "e", "m", "/", "c", "o", "n", "f", "i", "g">>

Min(a, b) == IF a < b THEN a ELSE b

\* s[i] of C, 0-based; the terminator sits at index strlen(s)
CharAt(s, i) == IF i < Len(s) THEN s[i + 1] ELSE NUL

\* the first n characters of s (all of s when it is shorter)
Take(s, n) == SubSeq(s, 1, Min(n, Len(s)))

\* strncmp(a, b, n) == 0
STREQLEN(a, b, n) == Take(a, n) = Take(b, n)

\* strncmp(a, b, n) != 0
STRNEQLEN(a, b, n) == ~STREQLEN(a, b, n)

\* strcmp(a, b) == 0
STREQ(a, b) == a = b

\* strrchr(s, SEP) as an offset into s, -1 for a NULL result
strrchr(s) == IF \E i \in 1..Len(s) : s[i] = SEP
              THEN (CHOOSE i \in 1..Len(s) : s[i] = SEP /\ \A j \in (i+1)..Len(s) : s[j] # SEP) - 1
              ELSE -1

\* strchr(s + off, SEP) == NULL
NoSepFrom(s, off) == \A i \in (off + 1)..Len(s) : s[i] # SEP

\* SEP, STREQ, STREQLEN, STRNEQLEN, pathlen and pathprefix are declared in
\* internal.h; they follow their documented behaviour.
\* length of a path without one trailing separator (the root keeps its own)
pathlen(p) == IF Len(p) > 1 /\ p[Len(p)] = SEP THEN Len(p) - 1 ELSE Len(p)

\* p1 is a prefix of p2 that ends at a separator or at the end of p2
pathprefix(p1, p2) ==
    /\ STREQLEN(p1, p2, pathlen(p1))
    /\ CharAt(p2, pathlen(p1)) \in {NUL, SEP}

(***************************************************************************)
(* The heap and the list                                                   *)
(***************************************************************************)
Node == 1..MaxNodes

FreeCell == [used |-> FALSE, path |-> <<>>, value |-> NOVALUE, next |-> NULL, prev |-> NULL]

\* a store is the static head pointer and the heap; oom tells that an
\* allocation has failed since the call began.  nalloc counts the allocations
\* (calloc, strdup) the call has asked for, and the one numbered failat
\* returns NULL; failat = 0 lets none fail but for want of cells.
Store(h, m) == [head |-> h, mem |-> m, oom |-> FALSE, nalloc |-> 0, failat |-> 0]

\* the store of a call whose k-th allocation fails
StoreFailing(h, m, k) == [Store(h, m) EXCEPT !.failat = k]

\* the next allocation of the call is the one that fails
Fails(S) == S.failat = S.nalloc + 1

\* one more allocation asked for
Tick(S) == [S EXCEPT !.nalloc = @ + 1]

\* calloc: the lowest free cell, NULL when the heap is exhausted
calloc(m) == IF \E n \in Node : ~m[n].used
             THEN CHOOSE n \in Node : ~m[n].used /\ \A k \in Node : k < n => m[k].used
             ELSE NULL

\* the entries met by p = head; do { ... p = p->next; } while (p != head), in order
\* (cut off after MaxNodes entries, which a well-formed list never exceeds)
RECURSIVE walk(_, _, _)
walk(S, p, acc) ==
    IF S.mem[p].next = S.head \/ Len(acc) >= MaxNodes THEN Append(acc, p)
    ELSE walk(S, S.mem[p].next, Append(acc, p))

Traversal(S) == walk(S, S.head, <<>>)

PathEq(a, b) == pathprefix(a, b) /\ pathprefix(b, a)

aug_entry_find(S, path) ==
    LET t == Traversal(S)
        hit == {i \in 1..Len(t) : PathEq(path, S.mem[t[i]].path)}
    IN IF hit = {} THEN NULL
       ELSE t[CHOOSE i \in hit : \A j \in hit : i <= j]

\* aug_entry_insert without e->next->prev = e
aug_entry_insert_no_back_link(S, path, next) ==
    LET e == IF Fails(S) THEN NULL ELSE calloc(S.mem) IN
    IF e = NULL THEN [S |-> [Tick(S) EXCEPT !.oom = TRUE], e |-> NULL]
    ELSE IF Fails(Tick(S)) THEN [S |-> [Tick(Tick(S)) EXCEPT !.oom = TRUE], e |-> NULL]
    ELSE LET pv == S.mem[next].prev
             m1 == [S.mem EXCEPT ![e] = [used |-> TRUE, path |-> path, value |-> NOVALUE,
                                          next |-> next, prev |-> pv]]
             m3 == [m1 EXCEPT ![m1[e].prev].next = e]
         IN [S |-> [Tick(Tick(S)) EXCEPT !.mem = m3], e |-> e]

\* result: the store after the call and the new entry e (NULL on failure);
\* a failed strdup of the path frees e again, which leaves the heap as it was
aug_entry_insert(S, path, next) ==
    LET e == IF Fails(S) THEN NULL ELSE calloc(S.mem) IN
    IF e = NULL THEN [S |-> [Tick(S) EXCEPT !.oom = TRUE], e |-> NULL]
    ELSE IF Fails(Tick(S)) THEN [S |-> [Tick(Tick(S)) EXCEPT !.oom = TRUE], e |-> NULL]
    ELSE LET pv == S.mem[next].prev
             m1 == [S.mem EXCEPT ![e] = [used |-> TRUE, path |-> path, value |-> NOVALUE,
                                          next |-> next, prev |-> pv]]
             m2 == [m1 EXCEPT ![m1[e].next].prev = e]
             m3 == [m2 EXCEPT ![m2[e].prev].next = e]
         IN [S |-> [Tick(Tick(S)) EXCEPT !.mem = m3], e |-> e]

\* the loop of aug_entry_make from offset pos of the (already truncated) path
RECURSIVE make_loop(_, _, _)
make_loop(S, path, pos) ==
    IF CharAt(path, pos) = NUL THEN [S |-> S, ok |-> TRUE]
    ELSE IF CharAt(path, pos) = SEP /\ aug_entry_find(S, Take(path, pos)) = NULL
    THEN LET r == aug_entry_insert(S, Take(path, pos), S.head) IN
         IF r.e = NULL THEN [S |-> r.S, ok |-> FALSE]
         ELSE make_loop(r.S, path, pos + 1)
    ELSE make_loop(S, path, pos + 1)

\* aug_entry_make without the loop over the ancestors
aug_entry_make_no_ancestors(S, p, next) ==
    aug_entry_insert(S, Take(p, pathlen(p)), next)

\* aug_entry_make that links the entry itself before its ancestors
aug_entry_make_entry_first(S, p, next) ==
    LET path == Take(p, pathlen(p))
        r == aug_entry_insert(S, path, next)
        a == make_loop(r.S, path, 1)
    IN IF r.e = NULL THEN r
       ELSE IF ~a.ok THEN [S |-> a.S, e |-> NULL]
       ELSE [S |-> a.S, e |-> r.e]

aug_entry_make(S, p, next) ==
    LET path == Take(p, pathlen(p))
        a == make_loop(S, path, 1)
    IN IF ~a.ok THEN [S |-> a.S, e |-> NULL]
       ELSE aug_entry_insert(a.S, path, next)

aug_entry_free(S, e) ==
    LET m1 == [S.mem EXCEPT ![S.mem[e].prev].next = S.mem[e].next]
        m2 == [m1 EXCEPT ![m1[e].next].prev = m1[e].prev]
    IN [S EXCEPT !.mem = [m2 EXCEPT ![e] = FreeCell]]

(***************************************************************************)
(* Public API, as functions of the store                                   *)
(***************************************************************************)
\* aug_init that makes the two sentinels on every call
aug_init_sentinels_every_call(S) ==
    LET h == IF Fails(S) THEN NULL ELSE calloc(S.mem)
        m1 == IF h = NULL THEN S.mem ELSE [S.mem EXCEPT ![h].used = TRUE]
        e == IF Fails(Tick(S)) THEN NULL ELSE calloc(m1)
        m2 == IF e = NULL THEN m1 ELSE [m1 EXCEPT ![e].used = TRUE]
        S2 == Tick(Tick(S))
    IN IF h = NULL \/ e = NULL
       THEN [S |-> [S2 EXCEPT !.head = h, !.mem = m2, !.oom = TRUE], ok |-> FALSE]
       ELSE [S |-> [S2 EXCEPT !.head = h, !.mem = [m2 EXCEPT
                   ![h] = [used |-> TRUE, path |-> P_SYSTEM, value |-> NOVALUE,
                           next |-> e, prev |-> e],
                   ![e] = [used |-> TRUE, path |-> P_SYSTEM_CONFIG, value |-> NOVALUE,
                           next |-> h, prev |-> h]]],
             ok |-> TRUE]

\* the first half of aug_init: the two sentinels, made when head is NULL.
\* Both cells are asked for before either result is looked at, and head
\* keeps what the first calloc returned, also when the call then fails.
aug_init_sentinels(S) ==
    IF S.head # NULL THEN [S |-> S, ok |-> TRUE]
    ELSE LET h == IF Fails(S) THEN NULL ELSE calloc(S.mem)
             m1 == IF h = NULL THEN S.mem ELSE [S.mem EXCEPT ![h].used = TRUE]
             e == IF Fails(Tick(S)) THEN NULL ELSE calloc(m1)
             m2 == IF e = NULL THEN m1 ELSE [m1 EXCEPT ![e].used = TRUE]
             S2 == Tick(Tick(S))
         IN IF h = NULL \/ e = NULL
            THEN [S |-> [S2 EXCEPT !.head = h, !.mem = m2, !.oom = TRUE], ok |-> FALSE]
            ELSE [S |-> [S2 EXCEPT !.head = h, !.mem = [m2 EXCEPT
                        ![h] = [used |-> TRUE, path |-> P_SYSTEM, value |-> NOVALUE,
                                next |-> e, prev |-> e],
                        ![e] = [used |-> TRUE, path |-> P_SYSTEM_CONFIG, value |-> NOVALUE,
                                next |-> h, prev |-> h]]],
                  ok |-> TRUE]

\* the second half of aug_init for the one registered provider, whose init
\* and load return pinit and pload
aug_init_providers(pinit, pload) ==
    IF pinit = -1 THEN -1
    ELSE IF pload = -1 THEN -1
    ELSE 0

aug_get(S, path) ==
    LET p == aug_entry_find(S, path) IN
    IF p # NULL THEN S.mem[p].value ELSE NOVALUE

\* aug_exists that asks for a value as well
aug_exists_with_value(S, path) ==
    LET p == aug_entry_find(S, path) IN
    p # NULL /\ S.mem[p].value # NOVALUE

aug_exists(S, path) == aug_entry_find(S, path) # NULL

\* the end of aug_set: the old value is freed and p->value becomes the copy
\* of value, which is NULL when strdup fails
set_value(S, p, value) ==
    IF Fails(S)
    THEN [S |-> [Tick(S) EXCEPT !.mem[p].value = NOVALUE, !.oom = TRUE], ret |-> -1]
    ELSE [S |-> [Tick(S) EXCEPT !.mem[p].value = value], ret |-> 0]

\* aug_set that keeps a value the entry already has
aug_set_keeps_old_value(S, path, value) ==
    LET f == aug_entry_find(S, path)
        r == IF f = NULL THEN aug_entry_make(S, path, S.head) ELSE [S |-> S, e |-> f]
    IN IF r.e = NULL THEN [S |-> r.S, ret |-> -1]
       ELSE IF r.S.mem[r.e].value # NOVALUE THEN [S |-> r.S, ret |-> 0]
       ELSE set_value(r.S, r.e, value)

\* aug_set without the lookup: it makes an entry on every call
aug_set_always_makes(S, path, value) ==
    LET r == aug_entry_make(S, path, S.head) IN
    IF r.e = NULL THEN [S |-> r.S, ret |-> -1]
    ELSE set_value(r.S, r.e, value)

\* aug_set that makes a new entry before the entry after head
aug_set_makes_at_front(S, path, value) ==
    LET f == aug_entry_find(S, path)
        r == IF f = NULL THEN aug_entry_make(S, path, S.mem[S.head].next)
             ELSE [S |-> S, e |-> f]
    IN IF r.e = NULL THEN [S |-> r.S, ret |-> -1]
       ELSE set_value(r.S, r.e, value)

aug_set(S, path, value) ==
    LET f == aug_entry_find(S, path)
        r == IF f = NULL THEN aug_entry_make(S, path, S.head) ELSE [S |-> S, e |-> f]
    IN IF r.e = NULL THEN [S |-> r.S, ret |-> -1]
       ELSE set_value(r.S, r.e, value)

\* the argument checks without the comparison of the two directory parts
insert_args_ok_any_dir(path, sibling) ==
    LET pdir == strrchr(path)
        sdir == strrchr(sibling)
    IN /\ ~STREQ(path, sibling)
       /\ pdir # -1 /\ sdir # -1
       /\ pdir = sdir

\* the argument checks of aug_insert that come before any lookup
insert_args_ok(path, sibling) ==
    LET pdir == strrchr(path)
        sdir == strrchr(sibling)
    IN /\ ~STREQ(path, sibling)
       /\ pdir # -1 /\ sdir # -1
       /\ pdir = sdir
       /\ ~STRNEQLEN(path, sibling, pdir)

\* the relinking without the last assignment, s->prev = p
insert_relink_no_prev(S, p, s) ==
    LET m1 == [S.mem EXCEPT ![S.mem[p].prev].next = S.mem[p].next]
        m2 == [m1 EXCEPT ![m1[p].next].prev = m1[p].prev]
        m3 == [m2 EXCEPT ![m2[s].prev].next = p]
        m4 == [m3 EXCEPT ![p].prev = m3[s].prev]
        m5 == [m4 EXCEPT ![p].next = s]
    IN [S EXCEPT !.mem = m5]

\* the relinking of an existing entry p in front of s
insert_relink(S, p, s) ==
    LET m1 == [S.mem EXCEPT ![S.mem[p].prev].next = S.mem[p].next]
        m2 == [m1 EXCEPT ![m1[p].next].prev = m1[p].prev]
        m3 == [m2 EXCEPT ![m2[s].prev].next = p]
        m4 == [m3 EXCEPT ![p].prev = m3[s].prev]
        m5 == [m4 EXCEPT ![p].next = s]
        m6 == [m5 EXCEPT ![s].prev = p]
    IN [S EXCEPT !.mem = m6]

aug_insert(S, path, sibling) ==
    IF ~insert_args_ok(path, sibling) THEN [S |-> S, ret |-> -1]
    ELSE LET s == aug_entry_find(S, sibling) IN
         IF s = NULL THEN [S |-> S, ret |-> -1]
         ELSE LET p == aug_entry_find(S, path) IN
              IF p = NULL
              THEN LET r == aug_entry_make(S, path, s) IN
                   [S |-> r.S, ret |-> IF r.e = NULL THEN -1 ELSE 0]
              ELSE [S |-> insert_relink(S, p, s), ret |-> 0]

\* the test of aug_rm as a raw string prefix, without the look at path[plen]
rm_matches_raw_prefix(epath, path) ==
    /\ STREQLEN(epath, path, pathlen(path))
    /\ ~STREQ(P_SYSTEM, epath)
    /\ ~STREQ(P_SYSTEM_CONFIG, epath)

\* the test of aug_rm without the protection of /system/config
rm_matches_config_unprotected(epath, path) ==
    LET plen == pathlen(path) IN
    /\ STREQLEN(epath, path, pathlen(path))
    /\ CharAt(epath, plen) \in {NUL, SEP}
    /\ ~STREQ(P_SYSTEM, epath)

\* the test aug_rm applies to the path of the entry it looks at
rm_matches(epath, path) ==
    LET plen == pathlen(path) IN
    /\ STREQLEN(epath, path, pathlen(path))
    /\ CharAt(epath, plen) \in {NUL, SEP}
    /\ ~STREQ(P_SYSTEM, epath)
    /\ ~STREQ(P_SYSTEM_CONFIG, epath)

\* the for loop of aug_rm at entry p; seen is the sequence of entries examined
RECURSIVE rm_loop(_, _, _, _, _)
rm_loop(S, path, p, cnt, seen) ==
    IF p = S.mem[S.head].next \/ Len(seen) > MaxNodes
    THEN [S |-> S, ret |-> cnt, seen |-> seen, done |-> (p = S.mem[S.head].next)]
    ELSE LET q == S.mem[p].prev
             S1 == IF rm_matches(S.mem[q].path, path) THEN aug_entry_free(S, q) ELSE S
             c1 == IF rm_matches(S.mem[q].path, path) THEN cnt + 1 ELSE cnt
         IN rm_loop(S1, path, S1.mem[p].next, c1, Append(seen, q))

\* aug_rm whose loop starts at head->next
aug_rm_starts_at_first(S, path) ==
    rm_loop(S, path, S.mem[S.head].next, 0, <<>>)

aug_rm(S, path) ==
    rm_loop(S, path, S.mem[S.mem[S.head].next].next, 0, <<>>)

\* the test aug_ls applies to the path of an entry
\* the test of aug_ls without the search for a further separator
ls_matches_any_depth(epath, path) ==
    LET len == pathlen(path) IN
    /\ pathprefix(path, epath)
    /\ Len(epath) > len + 1

ls_matches(epath, path) ==
    LET len == pathlen(path) IN
    /\ pathprefix(path, epath)
    /\ Len(epath) > len + 1
    /\ NoSepFrom(epath, len + 1)

\* the paths of all entries of the traversal
PathsOf(S) == {S.mem[Traversal(S)[i]].path : i \in 1..Len(Traversal(S))}

\* the paths p->path of the entries of the traversal that lie in the set good,
\* in the order of the traversal
Select(S, good) ==
    LET t == Traversal(S)
        F[i \in 0..Len(t)] ==
            IF i = 0 THEN <<>>
            ELSE IF S.mem[t[i]].path \in good THEN Append(F[i - 1], S.mem[t[i]].path)
            ELSE F[i - 1]
    IN F[Len(t)]

\* sink = FALSE is a NULL children argument: only the count comes back
aug_ls(S, path, sink) ==
    LET kids == Select(S, {e \in PathsOf(S) : ls_matches(e, path)}) IN
    [ret |-> Len(kids), children |-> IF sink THEN kids ELSE <<>>]

\* fnmatch(pattern, string, FNM_NOESCAPE) == 0 for patterns without brackets:
\* `*` matches any run of characters, `?` any one character, and neither
\* treats the separator specially because FNM_PATHNAME is not passed
RECURSIVE fnmatch(_, _)
fnmatch(pat, str) ==
    IF pat = <<>> THEN str = <<>>
    ELSE IF Head(pat) = "*"
    THEN fnmatch(Tail(pat), str) \/ (str # <<>> /\ fnmatch(pat, Tail(str)))
    ELSE IF str = <<>> THEN FALSE
    ELSE IF Head(pat) = "?" THEN fnmatch(Tail(pat), Tail(str))
    ELSE Head(pat) = Head(str) /\ fnmatch(Tail(pat), Tail(str))

\* aug_match that counts only the matches it has written
aug_match_counts_written(S, pattern, size) ==
    LET all == Select(S, {e \in PathsOf(S) : fnmatch(pattern, e)}) IN
    [ret |-> Len(Take(all, size)), matches |-> Take(all, size)]

aug_match(S, pattern, size) ==
    LET all == Select(S, {e \in PathsOf(S) : fnmatch(pattern, e)}) IN
    [ret |-> Len(all), matches |-> Take(all, size)]

\* aug_save for the one registered provider, whose save returns psave
aug_save(psave) == IF psave = -1 THEN -1 ELSE 0

(***************************************************************************)
(* The provider loops on an array of any length.  A provider is given by   *)
(* what its init and its load return and by the script of Set and Insert   *)
(* calls its load makes; what the loop has called comes back in trace.     *)
(***************************************************************************)
\* one call of a load: c is <<"set", path, value>> or <<"insert", path, sibling>>
script_call(S, c) ==
    IF c[1] = "set" THEN aug_set(S, c[2], c[3]).S ELSE aug_insert(S, c[2], c[3]).S

\* the calls of a load, one after the other, each on the store the one
\* before has left
run_script(S, script) ==
    LET F[i \in 0..Len(script)] ==
          IF i = 0 THEN S
          ELSE CHOOSE T \in {script_call(T0, script[i]) : T0 \in {F[i - 1]}} : TRUE
    IN F[Len(script)]

\* the provider loop of aug_init that goes on after a failed init or load
\* and reports the failure at the end
aug_init_loop_runs_all(S, provs) ==
    LET F[i \in 0..Len(provs)] ==
          IF i = 0 THEN [S |-> S, ret |-> 0, trace |-> <<>>]
          ELSE CHOOSE r \in {[S |-> run_script(b.S, provs[i].script),
                              trace |-> b.trace \o <<(<<"init", i>>), <<"load", i>> >>,
                              ret |-> IF provs[i].init = -1 \/ provs[i].load = -1
                                      THEN -1 ELSE b.ret] : b \in {F[i - 1]}} : TRUE
    IN F[Len(provs)]

\* one round of the loop for the provider prov at index i, on what the
\* rounds before have left in b: nothing once a call has failed, else init
\* and, if that succeeds, load
init_round(b, prov, i) ==
    IF b.ret = -1 THEN b
    ELSE IF prov.init = -1
    THEN [S |-> b.S, ret |-> -1, trace |-> Append(b.trace, <<"init", i>>)]
    ELSE [S |-> run_script(b.S, prov.script), ret |-> prov.load,
          trace |-> b.trace \o <<(<<"init", i>>), <<"load", i>> >>]

\* for (i = 0; providers[i] != NULL; i++): init, then load, and return -1 at
\* the first of them that returns -1
aug_init_loop(S, provs) ==
    LET F[i \in 0..Len(provs)] ==
          IF i = 0 THEN [S |-> S, ret |-> 0, trace |-> <<>>]
          ELSE CHOOSE r \in {init_round(b, provs[i], i) : b \in {F[i - 1]}} : TRUE
    IN F[Len(provs)]

\* the loop of aug_save over providers whose save returns results[i]
aug_save_loop(results) ==
    LET F[i \in 0..Len(results)] ==
          IF i = 0 THEN [ret |-> 0, trace |-> <<>>]
          ELSE IF F[i - 1].ret = -1 THEN F[i - 1]
          ELSE [ret |-> results[i], trace |-> Append(F[i - 1].trace, <<"save", i>>)]
    IN F[Len(results)]

\* what aug_print writes for the entry p: a FIXME report for each link of p
\* that does not come back to p, then the line of p when path is NULL
\* (given = FALSE) or a string prefix of p->path
print_entry(S, p, given, path) ==
    LET e == S.mem[p]
        f1 == IF p # S.mem[e.prev].next THEN << <<"FIXME", "prev->next", e.path>> >> ELSE <<>>
        f2 == IF p # S.mem[e.next].prev THEN << <<"FIXME", "next->prev", e.path>> >> ELSE <<>>
        ln == IF ~given \/ STREQLEN(path, e.path, pathlen(path))
              THEN << IF e.value # NOVALUE THEN <<e.path, "=", e.value>> ELSE <<e.path>> >>
              ELSE <<>>
    IN f1 \o f2 \o ln

aug_print(S, given, path) ==
    LET t == Traversal(S)
        F[i \in 0..Len(t)] ==
            IF i = 0 THEN <<>> ELSE F[i - 1] \o print_entry(S, t[i], given, path)
    IN F[Len(t)]

(***************************************************************************)
(* Inputs: the calls a client makes, as three sets of calls.  CoreCalls    *)
(* works on /a and its children /a/b and /a/bc next to the sentinels,      *)
(* DeepCalls on the three-level path /a/b/c and on a second directory /b,  *)
(* SentinelCalls on the sentinels themselves and on entries below them.    *)
(***************************************************************************)
PA == <<"/", "a">>

PA_SLASH == <<"/", "a", "/">>

PAB == <<"/", "a", "/", "b">>

PABC == <<"/", "a", "/", "b", "/", "c">>

PABc == <<"/", "a", "/", "b", "c">>

PB == <<"/", "b">>

PBC == <<"/", "b", "/", "c">>

PAC == <<"/", "a", "/", "c">>

P_SYSTEM_X == <<"/", "s", "y", "s", "t", "e", "m", "/", "x">>

NOSEP == <<"a">>

ROOT == <<>>

GLOB_A_STAR == <<"/", "a", "/", "*">>

P_SYSTEM_CONFIG_Y == <<"/", "s", "y", "s", "t", "e", "m", "/", "c", "o", "n", "f", "i", "g", "/", "y">>

GLOB_SYSTEM_STAR == <<"/", "s", "y", "s", "t", "e", "m", "*">>

GLOB_A_ONE == <<"/", "a", "/", "?">>

CoreCalls ==
    [set    |-> {<<PA, "x">>, <<PA_SLASH, "y">>, <<PAB, "x">>, <<PAB, "y">>, <<PABc, "x">>},
     insert |-> {<<PAB, PABc>>, <<PABc, PAB>>, <<PA, P_SYSTEM>>, <<P_SYSTEM, PA>>,
                 <<PAB, PA_SLASH>>, <<PA, PA>>, <<NOSEP, PA>>, <<PA, NOSEP>>, <<PAB, PA>>},
     rm     |-> {ROOT, PA, PA_SLASH, PAB, P_SYSTEM, P_SYSTEM_CONFIG},
     ls     |-> {<<ROOT, TRUE>>, <<PA, TRUE>>, <<PA, FALSE>>},
     match  |-> {<<GLOB_A_STAR, 1>>, <<GLOB_A_ONE, 2>>},
     get    |-> {PA, PAB},
     exists |-> {PABc},
     print  |-> {<<FALSE, ROOT>>}]

DeepCalls ==
    [set    |-> {<<PABC, "x">>, <<PAB, "x">>, <<PAC, "x">>, <<PBC, "x">>},
     insert |-> {<<PAB, PBC>>, <<PBC, PAB>>, <<PABC, PAB>>, <<PB, PA>>, <<PAC, PAB>>,
                 <<PAB, PAB>>, <<NOSEP, PAB>>},
     rm     |-> {PA, PB, PAB},
     ls     |-> {<<PA, TRUE>>, <<PA, FALSE>>},
     match  |-> {<<GLOB_A_STAR, 2>>, <<GLOB_A_STAR, 0>>},
     get    |-> {PABC},
     exists |-> {PA, PAB},
     print  |-> {<<TRUE, PAB>>}]

SentinelCalls ==
    [set    |-> {<<P_SYSTEM, "x">>, <<P_SYSTEM_X, "x">>, <<P_SYSTEM_CONFIG_Y, "y">>},
     insert |-> {<<P_SYSTEM_X, P_SYSTEM_CONFIG>>, <<P_SYSTEM_CONFIG, P_SYSTEM_X>>,
                 <<PA, P_SYSTEM>>, <<P_SYSTEM, PA>>},
     rm     |-> {ROOT, P_SYSTEM, P_SYSTEM_CONFIG, P_SYSTEM_X},
     ls     |-> {<<P_SYSTEM, TRUE>>, <<ROOT, FALSE>>},
     match  |-> {<<GLOB_SYSTEM_STAR, 3>>},
     get    |-> {P_SYSTEM, P_SYSTEM_CONFIG},
     exists |-> {P_SYSTEM, P_SYSTEM_CONFIG},
     print  |-> {<<TRUE, P_SYSTEM>>}]

(***************************************************************************)
(* Actions: one call of the public API each                                *)
(***************************************************************************)
S0 == Store(head, mem)

Init ==
    /\ head = NULL
    /\ mem = [n \in Node |-> FreeCell]
    /\ call = <<"start">>
    /\ ret = 0
    /\ out = <<>>
    /\ was = FALSE

\* aug_init with the provider's init and load returning pinit and pload
InitCall(pinit, pload) ==
    LET S1 == aug_init_sentinels(S0) IN
    /\ S1.ok
    /\ head' = S1.S.head
    /\ mem' = S1.S.mem
    /\ ret' = aug_init_providers(pinit, pload)
    /\ call' = <<"init", pinit, pload>>
    /\ out' = <<>>
    /\ was' = FALSE

SetCall(path, value) ==
    /\ head # NULL
    /\ LET r == aug_set(S0, path, value) IN
         /\ ~r.S.oom
         /\ head' = r.S.head
         /\ mem' = r.S.mem
         /\ ret' = r.ret
    /\ call' = <<"set", path, value>>
    /\ out' = <<>>
    /\ was' = aug_exists(S0, path)

InsertCall(path, sibling) ==
    /\ head # NULL
    /\ LET r == aug_insert(S0, path, sibling) IN
         /\ ~r.S.oom
         /\ head' = r.S.head
         /\ mem' = r.S.mem
         /\ ret' = r.ret
    /\ call' = <<"insert", path, sibling>>
    /\ out' = <<>>
    /\ was' = aug_exists(S0, path)

RmCall(path) ==
    /\ head # NULL
    /\ LET r == aug_rm(S0, path) IN
         /\ head' = r.S.head
         /\ mem' = r.S.mem
         /\ ret' = r.ret
    /\ call' = <<"rm", path>>
    /\ out' = <<>>
    /\ was' = aug_exists(S0, path)

LsCall(path, sink) ==
    /\ head # NULL
    /\ LET r == aug_ls(S0, path, sink) IN
         /\ ret' = r.ret
         /\ out' = r.children
    /\ call' = <<"ls", path, sink>>
    /\ was' = aug_exists(S0, path)
    /\ UNCHANGED <<head, mem>>

MatchCall(pattern, size) ==
    /\ head # NULL
    /\ LET r == aug_match(S0, pattern, size) IN
         /\ ret' = r.ret
         /\ out' = r.matches
    /\ call' = <<"match", pattern, size>>
    /\ was' = FALSE
    /\ UNCHANGED <<head, mem>>

\* the value comes back in out, as <<>> for a NULL result
GetCall(path) ==
    /\ head # NULL
    /\ LET v == aug_get(S0, path) IN
         /\ ret' = 0
         /\ out' = IF v = NOVALUE THEN <<>> ELSE <<v>>
    /\ call' = <<"get", path>>
    /\ was' = aug_exists(S0, path)
    /\ UNCHANGED <<head, mem>>

ExistsCall(path) ==
    /\ head # NULL
    /\ ret' = (IF aug_exists(S0, path) THEN 1 ELSE 0)
    /\ out' = <<>>
    /\ call' = <<"exists", path>>
    /\ was' = aug_exists(S0, path)
    /\ UNCHANGED <<head, mem>>

\* given = FALSE is a NULL path argument; what is written goes to out
PrintCall(given, path) ==
    /\ head # NULL
    /\ ret' = 0
    /\ out' = aug_print(S0, given, path)
    /\ call' = <<"print", given, path>>
    /\ was' = FALSE
    /\ UNCHANGED <<head, mem>>

\* aug_save with the provider's save returning psave
SaveCall(psave) ==
    /\ ret' = aug_save(psave)
    /\ out' = <<>>
    /\ call' = <<"save", psave>>
    /\ was' = FALSE
    /\ UNCHANGED <<head, mem>>

\* what the init, the load and the save of a provider can return
ProviderResults == <<0, -1>>

AugInit == \E i, j \in 1..2 : InitCall(ProviderResults[i], ProviderResults[j])

Set(C) == \E c \in C.set : SetCall(c[1], c[2])

Insert(C) == \E c \in C.insert : InsertCall(c[1], c[2])

Rm(C) == \E path \in C.rm : RmCall(path)

Ls(C) == \E c \in C.ls : LsCall(c[1], c[2])

Match(C) == \E c \in C.match : MatchCall(c[1], c[2])

Get(C) == \E path \in C.get : GetCall(path)

Exists(C) == \E path \in C.exists : ExistsCall(path)

AugPrint(C) == \E c \in C.print : PrintCall(c[1], c[2])

Save == \E i \in 1..2 : SaveCall(ProviderResults[i])

Next == AugInit \/ Set(CoreCalls) \/ Insert(CoreCalls) \/ Rm(CoreCalls)
          \/ Ls(CoreCalls) \/ Match(CoreCalls) \/ Get(CoreCalls) \/ Exists(CoreCalls)
          \/ AugPrint(CoreCalls) \/ Save

Spec == Init /\ [][Next]_vars

NextDeep == AugInit \/ Set(DeepCalls) \/ Insert(DeepCalls) \/ Rm(DeepCalls)
              \/ Ls(DeepCalls) \/ Match(DeepCalls) \/ Get(DeepCalls) \/ Exists(DeepCalls)
              \/ AugPrint(DeepCalls) \/ Save

SpecDeep == Init /\ [][NextDeep]_vars

NextSentinel == AugInit \/ Set(SentinelCalls) \/ Insert(SentinelCalls) \/ Rm(SentinelCalls)
                  \/ Ls(SentinelCalls) \/ Match(SentinelCalls) \/ Get(SentinelCalls)
                  \/ Exists(SentinelCalls) \/ AugPrint(SentinelCalls) \/ Save

SpecSentinel == Init /\ [][NextSentinel]_vars

(***************************************************************************)
(* Init and Save on arrays of providers                                    *)
(***************************************************************************)
NO_SCRIPT == <<>>

LOAD_SCRIPT == << <<"set", PAB, "x">>, <<"insert", PABc, PAB>> >>

\* what a provider can do in one aug_init
Behaviours ==
    {[init |-> -1, load |-> 0, script |-> NO_SCRIPT]}
      \cup [init : {0}, load : {0, -1}, script : {NO_SCRIPT, LOAD_SCRIPT}]

ProviderArrays == UNION {[1..n -> Behaviours] : n \in 1..MaxProviders}

SaveResults == UNION {[1..n -> {0, -1}] : n \in 1..MaxProviders}

ProviderCalls ==
    [set    |-> {<<PAB, "y">>, <<PA, "x">>},
     insert |-> {<<PAB, PABc>>},
     rm     |-> {PA, PAB}]

\* aug_init on the provider array provs; was tells that head was set before
InitProviders(provs) ==
    \E S1 \in {aug_init_sentinels(S0)} : \E r \in {aug_init_loop(S1.S, provs)} :
       /\ S1.ok
       /\ ~r.S.oom
       /\ head' = r.S.head
       /\ mem' = r.S.mem
       /\ ret' = r.ret
       /\ out' = r.trace
       /\ call' = <<"init", provs>>
       /\ was' = (head # NULL)

\* aug_save on providers whose save returns results[i]
SaveProviders(results) ==
    LET r == aug_save_loop(results) IN
    /\ ret' = r.ret
    /\ out' = r.trace
    /\ call' = <<"save", results>>
    /\ was' = FALSE
    /\ UNCHANGED <<head, mem>>

AugInitProviders == \E provs \in ProviderArrays : InitProviders(provs)

AugSaveProviders == \E results \in SaveResults : SaveProviders(results)

NextProviders == AugInitProviders \/ AugSaveProviders \/ Set(ProviderCalls)
                   \/ Insert(ProviderCalls) \/ Rm(ProviderCalls)

SpecProviders == Init /\ [][NextProviders]_vars

(***************************************************************************)
(* Calls in which an allocation fails                                      *)
(***************************************************************************)
OOMCalls ==
    [set    |-> {<<PABC, "x">>, <<PAB, "y">>},
     insert |-> {<<PAC, PAB>>, <<PAB, PAC>>},
     rm     |-> {PA}]

\* head points to an entry whose links are set; on any other store a call
\* but aug_init follows a NULL pointer and does not return
ListReady == head # NULL /\ mem[head].next # NULL

\* aug_init whose k-th allocation fails, with a provider that returns pinit
\* and pload and makes no call; head keeps the first cell when only the
\* second calloc fails
InitFailing(pinit, pload, k) ==
    LET S1 == aug_init_sentinels(StoreFailing(head, mem, k)) IN
    /\ head' = S1.S.head
    /\ mem' = S1.S.mem
    /\ ret' = (IF S1.ok THEN aug_init_providers(pinit, pload) ELSE -1)
    /\ call' = <<"init", pinit, pload, k>>
    /\ out' = <<>>
    /\ was' = (head # NULL)

SetFailing(path, value, k) ==
    /\ ListReady
    /\ LET r == aug_set(StoreFailing(head, mem, k), path, value) IN
         /\ head' = r.S.head
         /\ mem' = r.S.mem
         /\ ret' = r.ret
    /\ call' = <<"set", path, value, k>>
    /\ out' = <<>>
    /\ was' = aug_exists(S0, path)

InsertFailing(path, sibling, k) ==
    /\ ListReady
    /\ LET r == aug_insert(StoreFailing(head, mem, k), path, sibling) IN
         /\ head' = r.S.head
         /\ mem' = r.S.mem
         /\ ret' = r.ret
    /\ call' = <<"insert", path, sibling, k>>
    /\ out' = <<>>
    /\ was' = aug_exists(S0, path)

AugInitOOM == \E i, j \in 1..2, k \in 0..MaxFailAt :
                 InitFailing(ProviderResults[i], ProviderResults[j], k)

SetOOM == \E c \in OOMCalls.set, k \in 0..MaxFailAt : SetFailing(c[1], c[2], k)

InsertOOM == \E c \in OOMCalls.insert, k \in 0..MaxFailAt : InsertFailing(c[1], c[2], k)

RmOOM == \E path \in OOMCalls.rm : ListReady /\ RmCall(path)

NextOOM == AugInitOOM \/ SetOOM \/ InsertOOM \/ RmOOM

SpecOOM == Init /\ [][NextOOM]_vars

(***************************************************************************)
(* The store as a client sees it                                           *)
(***************************************************************************)
Used == {n \in Node : mem[n].used}

\* a path argument without its trailing separator
Norm(p) == IF Len(p) > 1 /\ p[Len(p)] = SEP THEN SubSeq(p, 1, Len(p) - 1) ELSE p

EntriesFor(p) == {n \in Used : mem[n].path = Norm(p)}

Present(p) == EntriesFor(p) # {}

\* the strict ancestors of a path: what stands before each separator but the first
Ancestors(p) == {SubSeq(p, 1, i - 1) : i \in {j \in 2..Len(p) : p[j] = SEP}}

Succeeded(op) == call[1] = op /\ ret = 0

(***************************************************************************)
(* C1: the store never holds two entries with the same path, and after a   *)
(* successful Set(p, v), also one on a path that already had an entry,     *)
(* there is exactly one entry for p.                                       *)
(***************************************************************************)
C1_OneEntryPerPath ==
    /\ \A m, n \in Used : mem[m].path = mem[n].path => m = n
    /\ Succeeded("set") => Cardinality(EntriesFor(call[2])) = 1

\* a second Set on /a/b has returned, with a new value
C1_Witness ==
    /\ call = <<"set", PAB, "y">> /\ ret = 0 /\ was
    /\ Cardinality(EntriesFor(PAB)) = 1

(***************************************************************************)
(* C2: every strict ancestor of every entry has an entry, and after a      *)
(* successful Set("/a/b/c", "x") Exists("/a") and Exists("/a/b") are true. *)
(***************************************************************************)
C2_AncestorsPresent ==
    /\ \A n \in Used : \A a \in Ancestors(mem[n].path) : Present(a)
    /\ call = <<"set", PABC, "x">> /\ ret = 0
          => aug_exists(S0, PA) /\ aug_exists(S0, PAB)

\* Set("/a/b/c", "x") has returned on a store that held the sentinels only
C2_Witness ==
    /\ call = <<"set", PABC, "x">> /\ ret = 0 /\ ~was
    /\ {mem[n].path : n \in Used} = {P_SYSTEM, P_SYSTEM_CONFIG, PA, PAB, PABC}

(***************************************************************************)
(* C3: once Init has made the list, the entries form one cycle: next and   *)
(* prev are inverse to each other on every entry, and the walk along next  *)
(* from head meets every entry once and then comes back to head; Print    *)
(* reports no link that fails to come back.                                *)
(***************************************************************************)
RECURSIVE NextTimes(_, _)
NextTimes(n, k) == IF k = 0 THEN n ELSE NextTimes(mem[n].next, k - 1)

C3_WellFormedCycle ==
    head # NULL =>
      /\ head \in Used
      /\ \A n \in Used :
            /\ mem[n].next \in Used /\ mem[n].prev \in Used
            /\ mem[mem[n].next].prev = n
            /\ mem[mem[n].prev].next = n
      /\ {NextTimes(head, k) : k \in 0..(Cardinality(Used) - 1)} = Used
      /\ NextTimes(head, Cardinality(Used)) = head
      /\ \A i \in 1..Len(aug_print(S0, FALSE, ROOT)) : aug_print(S0, FALSE, ROOT)[i][1] # "FIXME"

\* Insert has moved the head sentinel itself in front of /a, with /a/b and
\* /a/bc in the list as well
C3_Witness ==
    /\ call = <<"insert", P_SYSTEM, PA>> /\ ret = 0
    /\ Present(PAB) /\ Present(PABc)
    /\ mem[head].next # head /\ mem[mem[head].next].path = PA

(***************************************************************************)
(* C4: once Init has made them, /system and /system/config have an entry   *)
(* in every state, whatever is removed.                                    *)
(***************************************************************************)
C4_SentinelsStay ==
    head # NULL => Present(P_SYSTEM) /\ Present(P_SYSTEM_CONFIG)

\* Rm("/system") has removed /system/x and /system/config/y, the entries
\* below /system that are not sentinels
C4_Witness ==
    /\ call = <<"rm", P_SYSTEM>> /\ ret = 2
    /\ ~Present(P_SYSTEM_X) /\ ~Present(P_SYSTEM_CONFIG_Y)

(***************************************************************************)
(* C5 (amended): Rm(p) removes exactly the entries, other than the two     *)
(* sentinels, whose path is p (without a trailing separator) or p followed *)
(* by a separator and more; it leaves every other entry and every value as *)
(* it was and returns the number of entries removed.  With /a, /a/b and    *)
(* /a/bc present, Rm("/a/b") removes /a/b alone and keeps /a/bc, while     *)
(* Rm("/a") removes all three, /a/bc being a child of /a.                  *)
(***************************************************************************)
InSubtree(e, p) ==
    LET q == IF p = ROOT THEN p ELSE Norm(p) IN
    \/ e = q
    \/ Len(e) > Len(q) /\ SubSeq(e, 1, Len(q)) = q /\ e[Len(q) + 1] = SEP

Doomed(p) == {n \in Used : InSubtree(mem[n].path, p)
                             /\ mem[n].path \notin {P_SYSTEM, P_SYSTEM_CONFIG}}

PathSet == {mem[n].path : n \in Used}

RmExact(p) ==
    /\ ret' = Cardinality(Doomed(p))
    /\ {n \in Node : mem'[n].used} = Used \ Doomed(p)
    /\ \A n \in Used \ Doomed(p) :
          mem'[n].path = mem[n].path /\ mem'[n].value = mem[n].value

C5_RmRemovesSubtree ==
    [][call'[1] = "rm" =>
         /\ RmExact(call'[2])
         /\ call'[2] = PAB /\ {PA, PAB, PABc} \subseteq PathSet
               => {mem'[n].path : n \in Node} \cap {PA, PAB, PABc} = {PA, PABc}
         /\ call'[2] = PA /\ {PA, PAB, PABc} \subseteq PathSet
               => {mem'[n].path : n \in Node} \cap {PA, PAB, PABc} = {}]_vars

\* Rm("/a/b") has removed /a/b alone and has left /a and /a/bc
C5_Witness ==
    /\ call = <<"rm", PAB>> /\ ret = 1
    /\ Present(PA) /\ Present(PABc) /\ ~Present(PAB)

\* C5 as stated: the same, but with /a, /a/b and /a/bc present Rm("/a")
\* removes /a and /a/b and keeps /a/bc
C5_AsStated ==
    [][call'[1] = "rm" =>
         /\ RmExact(call'[2])
         /\ call'[2] = PA /\ {PA, PAB, PABc} \subseteq PathSet
               => {mem'[n].path : n \in Node} \cap {PA, PAB, PABc} = {PABc}]_vars

(***************************************************************************)
(* C6: after a successful Set(p, v), Get(p) returns v, whether p had an    *)
(* entry before the call or not.                                           *)
(***************************************************************************)
C6_SetThenGet ==
    Succeeded("set") => aug_get(S0, call[2]) = call[3]

\* Set("/a/b", "y") has returned on an entry that existed, after which
\* the entry holds "y"
C6_Witness ==
    /\ call = <<"set", PAB, "y">> /\ ret = 0 /\ was
    /\ \E n \in EntriesFor(PAB) : mem[n].value = "y"

(***************************************************************************)
(* C7: after a successful Insert(path, sibling), the entry of path is the  *)
(* immediate predecessor of the entry of sibling: path.next = sibling and  *)
(* sibling.prev = path, for a new entry and for a moved one.               *)
(***************************************************************************)
C7_InsertedBeforeSibling ==
    Succeeded("insert") =>
      \E p \in EntriesFor(call[2]), s \in EntriesFor(call[3]) :
        mem[p].next = s /\ mem[s].prev = p

\* Insert has moved the existing /a/bc in front of /a/b
C7_Witness ==
    /\ call = <<"insert", PABc, PAB>> /\ ret = 0 /\ was
    /\ \E p \in EntriesFor(PABc) : mem[mem[p].next].path = PAB

(***************************************************************************)
(* C8: after a successful Insert(x, y) of a path x that had no entry,      *)
(* where x and y have the same parent, Ls of that parent lists x at the    *)
(* position immediately before y.                                          *)
(***************************************************************************)
\* offset of the last separator of s, counted from 1; 0 when there is none
LastSep(s) == IF \A i \in 1..Len(s) : s[i] # SEP THEN 0
              ELSE CHOOSE i \in 1..Len(s) : s[i] = SEP /\ \A j \in 1..Len(s) : s[j] = SEP => j <= i

\* what stands before the last separator
DirPart(s) == SubSeq(s, 1, LastSep(s) - 1)

Parent(p) == DirPart(Norm(p))

C8_InsertThenLs ==
    Succeeded("insert") /\ ~was /\ Parent(call[2]) = Parent(call[3]) =>
      LET kids == aug_ls(S0, Parent(call[2]), TRUE).children IN
      \E i \in 1..(Len(kids) - 1) : kids[i] = Norm(call[2]) /\ kids[i + 1] = Norm(call[3])

(***************************************************************************)
(* C9: Insert(path, sibling) returns failure and changes neither the       *)
(* entries, nor their values, nor their order when path equals sibling,    *)
(* when one of them has no separator, when what stands before the last     *)
(* separator differs between them, or when sibling has no entry.           *)
(***************************************************************************)
InsertRejected(path, sibling) ==
    \/ path = sibling
    \/ LastSep(path) = 0 \/ LastSep(sibling) = 0
    \/ DirPart(path) # DirPart(sibling)
    \/ ~Present(sibling)

C9_FailedInsertChangesNothing ==
    [][call'[1] = "insert" /\ head # NULL /\ InsertRejected(call'[2], call'[3])
         => ret' = -1 /\ head' = head /\ mem' = mem]_vars

\* Insert("/a/b", "/b/c") has failed although /b/c and /a have entries
C9_Witness ==
    /\ call = <<"insert", PAB, PBC>> /\ ret = -1
    /\ Present(PBC) /\ Present(PA)

(***************************************************************************)
(* C10: Match with the glob "/a/*" reports the entries /a/b and /a/c, and  *)
(* neither /a/b/c nor /a: the wildcard selects one level below /a only.    *)
(* (Capacity 2 holds every entry one level below /a that the calls make.)  *)
(***************************************************************************)
C10_StarMatchesOneLevel ==
    call = <<"match", GLOB_A_STAR, 2>> =>
      /\ {out[i] : i \in 1..Len(out)} = PathSet \cap {PAB, PAC}
      /\ ret = Cardinality(PathSet \cap {PAB, PAC})

(***************************************************************************)
(* C11: Match returns the number of all entries whose path matches the     *)
(* pattern, whatever the capacity, and writes the first min(capacity,      *)
(* total) matching paths in the order of the traversal and nothing at an   *)
(* index from capacity on; with capacity 0 it writes nothing.              *)
(***************************************************************************)
\* the number of steps along next from head to the entry n
Pos(n) == CHOOSE k \in 0..(Cardinality(Used) - 1) : NextTimes(head, k) = n

Matched(pattern) == {n \in Used : fnmatch(pattern, mem[n].path)}

\* seq holds the paths of the first Len(seq) entries of the set among, as
\* the traversal from head meets them
FirstInOrder(seq, among) ==
    \A i \in 1..Len(seq) :
      \E n \in among : /\ mem[n].path = seq[i]
                       /\ Cardinality({m \in among : Pos(m) < Pos(n)}) = i - 1

C11_MatchCountsAllWritesFirst ==
    call[1] = "match" =>
      /\ ret = Cardinality(Matched(call[2]))
      /\ Len(out) = Min(call[3], ret)
      /\ FirstInOrder(out, Matched(call[2]))

\* Match("/a/*") with room for two paths has found three entries and has
\* written the first two
C11_Witness ==
    /\ call = <<"match", GLOB_A_STAR, 2>> /\ ret = 3 /\ Len(out) = 2

(***************************************************************************)
(* C12: Ls(p) yields the entries whose path is p, a separator and one more *)
(* component, in the order of the traversal, and returns their number,     *)
(* which is the same with and without a sink; with /a, /a/b and /a/b/c     *)
(* present Ls("/a") yields /a/b and not /a/b/c.                            *)
(***************************************************************************)
IsChild(e, p) ==
    LET q == Norm(p) IN
    /\ Len(e) > Len(q) + 1
    /\ SubSeq(e, 1, Len(q)) = q
    /\ e[Len(q) + 1] = SEP
    /\ \A i \in (Len(q) + 2)..Len(e) : e[i] # SEP

Kids(p) == {n \in Used : IsChild(mem[n].path, p)}

C12_LsImmediateChildren ==
    call[1] = "ls" =>
      /\ ret = Cardinality(Kids(call[2]))
      /\ aug_ls(S0, call[2], TRUE).ret = aug_ls(S0, call[2], FALSE).ret
      /\ call[3] => Len(out) = ret /\ FirstInOrder(out, Kids(call[2]))
      /\ ~call[3] => out = <<>>
      /\ call[2] = PA /\ call[3] /\ {mem[n].path : n \in Used} \cap {PAB, PAC, PABC} = {PAB, PABC}
            => out = <<PAB>>

\* Ls("/a") with a sink has yielded /a/b alone while /a/b/c is in the store
C12_Witness ==
    /\ call = <<"ls", PA, TRUE>> /\ ret = 1 /\ out = <<PAB>>
    /\ Present(PABC)

(***************************************************************************)
(* C13: Exists(p) is true exactly when p has an entry.  Get(p) returns a   *)
(* value exactly when p has an entry that holds one, and an entry holds a  *)
(* value only from a Set on its path: an entry made as an ancestor or by   *)
(* Insert exists and has no value until a Set on it.                       *)
(***************************************************************************)
UsedAfter == {n \in Node : mem'[n].used}

C13_ExistsAndGet ==
    [][/\ call'[1] = "exists" => (ret' = 1 <=> \E n \in UsedAfter : mem'[n].path = Norm(call'[2]))
       /\ call'[1] = "get" =>
            /\ out' # <<>> <=> \E n \in UsedAfter : /\ mem'[n].path = Norm(call'[2])
                                                   /\ mem'[n].value # NOVALUE
            /\ \A n \in UsedAfter : mem'[n].path = Norm(call'[2]) /\ mem'[n].value # NOVALUE
                                      => out' = <<mem'[n].value>>
       /\ \A n \in UsedAfter : mem'[n].value # NOVALUE =>
            \/ n \in Used /\ mem[n].path = mem'[n].path /\ mem[n].value = mem'[n].value
            \/ call'[1] = "set" /\ Norm(call'[2]) = mem'[n].path /\ call'[3] = mem'[n].value
      ]_vars

\* Get("/a") has found no value on /a, which exists as the ancestor that a
\* Set on /a/b has made
C13_Witness ==
    /\ call = <<"get", PA>> /\ out = <<>>
    /\ aug_exists(S0, PA) /\ aug_get(S0, PAB) # NOVALUE

(***************************************************************************)
(* C14: Init calls init and then load of each provider in the order of the *)
(* array and Save calls save in that order; each stops at the first call   *)
(* that fails, so that after a failed init neither that provider's load    *)
(* nor anything of a later provider is called, and each returns success    *)
(* only if every call has succeeded.                                       *)
(***************************************************************************)
\* the place of a provider call in the order init 1, load 1, init 2, ...
Rank(c) == 2 * c[2] + (IF c[1] = "init" THEN 0 ELSE 1)

Rising(trace) == \A a, b \in 1..Len(trace) : a < b => Rank(trace[a]) < Rank(trace[b])

Called(trace) == {trace[a] : a \in 1..Len(trace)}

FailsAt(provs, i) == provs[i].init = -1 \/ provs[i].load = -1

C14_ProvidersInOrderUntilFailure ==
    /\ call[1] = "init" =>
         LET provs == call[2]
             n == Len(provs)
         IN /\ Rising(out)
            /\ \A i \in 1..n :
                 /\ <<"init", i>> \in Called(out) <=> \A j \in 1..(i - 1) : ~FailsAt(provs, j)
                 /\ <<"load", i>> \in Called(out) <=>
                      provs[i].init # -1 /\ \A j \in 1..(i - 1) : ~FailsAt(provs, j)
            /\ Called(out) \subseteq {"init", "load"} \X (1..n)
            /\ ret = 0 <=> \A i \in 1..n : ~FailsAt(provs, i)
            /\ ret \in {0, -1}
    /\ call[1] = "save" =>
         LET results == call[2]
             n == Len(results)
         IN /\ Rising(out)
            /\ \A i \in 1..n :
                 <<"save", i>> \in Called(out) <=> \A j \in 1..(i - 1) : results[j] # -1
            /\ Called(out) \subseteq {"save"} \X (1..n)
            /\ ret = 0 <=> \A i \in 1..n : results[i] # -1
            /\ ret \in {0, -1}

\* Init on two providers has stopped at the failed load of the first, whose
\* script has run, and has called nothing of the second
C14_Witness ==
    /\ call[1] = "init" /\ Len(call[2]) = 2 /\ ret = -1
    /\ call[2][1].load = -1 /\ call[2][1].script = LOAD_SCRIPT
    /\ out = << <<"init", 1>>, <<"load", 1>> >>
    /\ Present(PABc)

(***************************************************************************)
(* C15: an Init on a store that Init has made before makes no second       *)
(* /system or /system/config, and by itself drops, changes or moves no     *)
(* entry; it calls init and load of every provider again, and with loads   *)
(* that only use Set and Insert the store is as the invariants C1 to C4    *)
(* want it afterwards.                                                     *)
(***************************************************************************)
SentinelPaths == {P_SYSTEM, P_SYSTEM_CONFIG}

C15_RepeatedInit ==
    /\ [](call[1] = "init" /\ was =>
            /\ \A q \in SentinelPaths : Cardinality(EntriesFor(q)) = 1
            /\ ret = 0 => out = [a \in 1..(2 * Len(call[2])) |->
                                   IF a % 2 = 1 THEN <<"init", (a + 1) \div 2>>
                                   ELSE <<"load", a \div 2>>]
            /\ C1_OneEntryPerPath /\ C2_AncestorsPresent
            /\ C3_WellFormedCycle /\ C4_SentinelsStay)
    /\ [][call'[1] = "init" /\ head # NULL =>
            /\ head' = head
            /\ \A n \in Used : mem'[n].used /\ mem'[n].path = mem[n].path
            /\ (\A a \in 1..Len(out') : out'[a][1] = "load"
                    => call'[2][out'[a][2]].script = NO_SCRIPT)
                 => mem' = mem
         ]_vars

\* a second Init on two providers whose loads do nothing has returned
\* success on a store that holds /a/bc and the value y on /a/b
C15_Witness ==
    /\ call[1] = "init" /\ was /\ ret = 0 /\ Len(call[2]) = 2
    /\ \A i \in 1..2 : call[2][i].script = NO_SCRIPT
    /\ Present(PABc) /\ aug_get(S0, PAB) = "y"

(***************************************************************************)
(* C16: whenever an Init call returns success, /system and                 *)
(* /system/config are entries of a well-formed circular list, also when    *)
(* an earlier Init has failed on an allocation or on a provider.           *)
(***************************************************************************)
\* the entry k steps along next from n, NULL once a link is NULL
RECURSIVE Along(_, _)
Along(n, k) == IF k = 0 \/ n = NULL THEN n ELSE Along(mem[n].next, k - 1)

OnList == {Along(head, k) : k \in 0..MaxNodes} \ {NULL}

\* the cells reached from head form one cycle with inverse links
ListWellFormed ==
    /\ ListReady
    /\ \A n \in OnList :
         /\ mem[n].used
         /\ mem[n].next # NULL /\ mem[n].prev # NULL
         /\ mem[mem[n].next].prev = n
         /\ mem[mem[n].prev].next = n
    /\ \E len \in 1..MaxNodes :
         /\ Along(head, len) = head
         /\ \A a, b \in 0..(len - 1) : Along(head, a) = Along(head, b) => a = b

C16_InitSuccessMeansSentinels ==
    call[1] = "init" /\ ret = 0 =>
      /\ ListWellFormed
      /\ \A q \in SentinelPaths : \E n \in OnList : mem[n].path = q

(***************************************************************************)
(* C20: when an allocation fails in a Set or an Insert, the call returns   *)
(* failure and leaves the list one cycle with inverse links, no path       *)
(* twice, and every strict ancestor of every entry present.                *)
(***************************************************************************)
C20_FailedCallKeepsInvariants ==
    call[1] \in {"set", "insert"} /\ ret = -1 =>
      /\ ListWellFormed
      /\ \A m, n \in OnList : mem[m].path = mem[n].path => m = n
      /\ \A n \in OnList : \A a \in Ancestors(mem[n].path) :
            \E m \in OnList : mem[m].path = a
      /\ \A n \in Used : mem[n].path # <<>> => n \in OnList

\* Set("/a/b/c", "x") has failed on its third allocation, the entry of
\* /a/b, after it had made /a
C20_Witness ==
    /\ call = <<"set", PABC, "x", 3>> /\ ret = -1 /\ ~was
    /\ \E n \in OnList : mem[n].path = PA
    /\ \A n \in OnList : mem[n].path \notin {PAB, PABC}

(***************************************************************************)
(* C17: on every store, also one whose head sentinel Insert has moved,     *)
(* and for every path, the loop of Rm comes to an end and examines every   *)
(* entry other than head exactly once, although it unlinks entries while   *)
(* it walks.                                                               *)
(***************************************************************************)
RmPaths == CoreCalls.rm \cup {PABc, P_SYSTEM_X}

C17_RmLoopExaminesAllOnce ==
    head # NULL =>
      \A path \in RmPaths :
        LET r == aug_rm(S0, path) IN
        /\ r.done
        /\ Len(r.seen) = Cardinality(Used) - 1
        /\ {r.seen[i] : i \in 1..Len(r.seen)} = Used \ {head}

\* Insert has moved the head sentinel between /system/config and /a, and
\* Rm("/a") on this store unlinks the entry that stands after head first and
\* the entries after it then
C17_Witness ==
    /\ head # NULL
    /\ mem[mem[head].prev].path = P_SYSTEM_CONFIG /\ mem[mem[head].next].path = PA
    /\ mem[mem[mem[head].prev].prev].path # P_SYSTEM
    /\ aug_rm(S0, PA).ret = 3
    /\ aug_rm(S0, PA).seen[1] = mem[head].next

(***************************************************************************)
(* C18: a Set that makes a new path links the new entry directly before    *)
(* head, behind the ancestors it has made, shallowest first, so that the   *)
(* new entry is the last of the traversal.  Hence a Set or an Rm keeps the *)
(* children that Ls yields for a parent in their order and a new child     *)
(* comes after them: without Insert, Ls yields siblings in the order of    *)
(* their creation.                                                         *)
(***************************************************************************)
\* the entry k steps along next from n in the store after the step
RECURSIVE NextTimesAfter(_, _)
NextTimesAfter(n, k) == IF k = 0 THEN n ELSE NextTimesAfter(mem'[n].next, k - 1)

\* the members of seq that lie in good, in their order
Surviving(seq, good) ==
    LET F[i \in 0..Len(seq)] ==
          IF i = 0 THEN <<>>
          ELSE IF seq[i] \in good THEN Append(F[i - 1], seq[i]) ELSE F[i - 1]
    IN F[Len(seq)]

LsParents == {ROOT, PA, PAB, PB}

\* the children of parent after the step are those that were there and have
\* stayed, in their order, and after them the ones that are new
OldKidsThenNew(parent) ==
    LET before == aug_ls(S0, parent, TRUE).children
        after == aug_ls(Store(head', mem'), parent, TRUE).children
        old == Surviving(before, {mem'[n].path : n \in UsedAfter})
    IN /\ Len(after) >= Len(old)
       /\ SubSeq(after, 1, Len(old)) = old
       /\ \A i \in (Len(old) + 1)..Len(after) : after[i] \notin PathSet

C18_SetAppendsInCreationOrder ==
    [][/\ call'[1] = "set" /\ ret' = 0 /\ ~was' =>
            LET old == Cardinality(Used)
                all == Cardinality(UsedAfter)
            IN /\ head' = head
               /\ \A k \in 0..(old - 1) : NextTimesAfter(head, k) = NextTimes(head, k)
               /\ \A k \in old..(all - 1) : NextTimesAfter(head, k) \notin Used
               /\ \A k \in old..(all - 2) :
                    Len(mem'[NextTimesAfter(head, k)].path)
                      < Len(mem'[NextTimesAfter(head, k + 1)].path)
               /\ mem'[NextTimesAfter(head, all - 1)].path = Norm(call'[2])
               /\ mem'[mem'[head].prev].path = Norm(call'[2])
       /\ call'[1] \in {"set", "rm"} => \A parent \in LsParents : OldKidsThenNew(parent)
      ]_vars

\* Set("/a/b/c", "x") has made /a, /a/b and /a/b/c on a store that held
\* /b, and they are the last three of the traversal, /a/b/c directly before
\* head
C18_Witness ==
    /\ call = <<"set", PABC, "x">> /\ ret = 0 /\ ~was
    /\ Cardinality(Used) = 6 /\ Present(PB)
    /\ mem[mem[head].prev].path = PABC
    /\ mem[mem[mem[head].prev].prev].path = PAB
    /\ mem[mem[mem[mem[head].prev].prev].prev].path = PA

(***************************************************************************)
(* C19: a successful Insert(path, sibling) on a path that has an entry     *)
(* only moves that entry: the entries, their paths and their values stay,  *)
(* and the other entries follow each other in the traversal from head as   *)
(* they did before, whichever entry path is, the sentinels included.       *)
(***************************************************************************)
OrderBefore == [k \in 1..Cardinality(Used) |-> NextTimes(head, k - 1)]

OrderAfter == [k \in 1..Cardinality(UsedAfter) |-> NextTimesAfter(head', k - 1)]

C19_InsertExistingOnlyMoves ==
    [][call'[1] = "insert" /\ ret' = 0 /\ was' =>
         /\ UsedAfter = Used
         /\ \A n \in Used : mem'[n].path = mem[n].path /\ mem'[n].value = mem[n].value
         /\ \A p \in Used : mem[p].path = Norm(call'[2]) =>
               Surviving(OrderAfter, Used \ {p}) = Surviving(OrderBefore, Used \ {p})
      ]_vars

====
